---- MODULE Spec2Model ----
(***************************************************************************)
(* cmdpipe (src/pipe.go): one Dispatcher invocation (Send), the broker     *)
(* queue it publishes to, and one Executor (CommandConsumer.Consume) with  *)
(* the program it runs.  The Dispatcher's main goroutine and its four      *)
(* relay goroutines, the Executor's consumer goroutine and the program are *)
(* interleaved statement by statement.                                     *)
(*                                                                         *)
(* Library behaviour the code relies on (Go net, io, os/exec, strconv):    *)
(*  - a unix-socket Dial succeeds as soon as a listener is bound, before   *)
(*    Accept; Accept hands out connections in dial order;                  *)
(*  - Listener.Close unlinks the socket file; a process exit does not;     *)
(*  - net.Dial / Accept return a nil net.Conn with the error; calling a    *)
(*    method on (or deferring a method of) a nil interface panics, and an  *)
(*    unrecovered panic in any goroutine ends the process without running  *)
(*    the deferred calls of the other goroutines.                          *)
(***************************************************************************)
EXTENDS Integers, Sequences, FiniteSets, TLC

\* ---------------------------------------------------------------- bounds
MaxOut == 2          \* bytes the program may write to its standard output
MaxErr == 1          \* bytes the program may write to its standard error
MaxIn == 1           \* bytes available on the Dispatcher's local stdin
MaxDeliveries == 2   \* times the broker may deliver the same descriptor
MaxEnvChars == 3     \* characters of the Dispatcher's CMDPIPE_ENV
MaxEnviron == 2      \* entries of the Executor's own environment

\* ------------------------------------------------------------- constants
Chan == {"out", "in", "err", "exit"}
Stdio == {"out", "err", "in"}
Names == {"foo", "bar"}
\* an integer not yet computed is the empty sequence, a computed one <<v>>
None == <<>>

\* exit statuses a program may terminate with: success, and a failure whose
\* decimal text has several digits
ExitCodes == {0, 255}
\* how a run of the program can end: a normal exit with a code, or a
\* termination by signal (WaitStatus.ExitStatus() is then -1)
Exited(code) == [kind |-> "exit", code |-> code]
Signaled == [kind |-> "signaled", code |-> -1]
NoOutcome == [kind |-> "none", code |-> -1]
Outcomes == {Exited(c) : c \in ExitCodes} \cup {Signaled}

OutByte(i) == i
ErrByte(i) == 100 + i
InByte(i) == 200 + i

\* ------------------------------------------------------- pure functions
getQueueName(commandName) == <<"command:", commandName>>

DigitChars == <<"0", "1", "2", "3", "4", "5", "6", "7", "8", "9">>
DigitSet == {DigitChars[i] : i \in 1..10}
DigitVal(c) == (CHOOSE i \in 1..10 : DigitChars[i] = c) - 1

RECURSIVE Digits(_)
Digits(n) == IF n < 10 THEN <<DigitChars[n + 1]>>
             ELSE Digits(n \div 10) \o <<DigitChars[(n % 10) + 1]>>

\* a plausible slip: the most significant digit is lost
ItoaDropLead(n) == IF n < 0 THEN <<"-">> \o Digits(-n)
                   ELSE IF n < 10 THEN Digits(n) ELSE Tail(Digits(n))

\* strconv.Itoa: decimal text, "-" for negatives
Itoa(n) == IF n < 0 THEN <<"-">> \o Digits(-n) ELSE Digits(n)

AtoiBody(s) == IF s # <<>> /\ s[1] \in {"-", "+"} THEN Tail(s) ELSE s

\* strconv.Atoi succeeds: optional sign, then at least one decimal digit
AtoiOk(s) == /\ AtoiBody(s) # <<>>
             /\ \A i \in 1..Len(AtoiBody(s)) : AtoiBody(s)[i] \in DigitSet

RECURSIVE DigitsVal(_)
DigitsVal(s) == IF s = <<>> THEN 0
                ELSE 10 * DigitsVal(SubSeq(s, 1, Len(s) - 1)) + DigitVal(s[Len(s)])

AtoiVal(s) == IF s[1] = "-" THEN 0 - DigitsVal(AtoiBody(s)) ELSE DigitsVal(AtoiBody(s))

\* a plausible slip: an unparsable payload is reported as success
ParseExitZero(buf) == IF AtoiOk(buf) THEN AtoiVal(buf) ELSE 0

\* Send's exit task: exitCode, err := Atoi(buf); if err != nil { exitCode = -1 }
ParseExit(buf) == IF AtoiOk(buf) THEN AtoiVal(buf) ELSE -1

\* Consume: the status written for a run.  started = FALSE: cmd.Run failed to
\* start the program.  copyErr: exec's stdio copying failed, which cmd.Wait
\* reports (as a non-ExitError) only when the program itself exited 0.
\* a plausible slip: only the program's own exit decides the status
ExitCodeOfExitOnly(started, outcome, copyErr) ==
    IF started /\ outcome.kind = "exit" THEN outcome.code ELSE -1

ExitCodeOf(started, outcome, copyErr) ==
    IF ~started THEN -1
    ELSE IF outcome.kind # "exit" THEN -1
    ELSE IF outcome.code = 0 THEN (IF copyErr THEN -1 ELSE 0)
    ELSE outcome.code

\* a plausible slip: the name is not compared
NameAllowedAny(name, allowed) == TRUE

\* Consume: command.Name != c.AllowedName rejects
NameAllowed(name, allowed) == name = allowed

\* a plausible slip: the barrier counts one relay too few
WgInitialTwo == 3 - 1

\* Send: wg.Add(3)
WgInitial == 3

\* a plausible slip: the descriptor is published before the last Listen
SendStepsPublishEarly ==
    <<"args", "listen_out", "listen_err", "listen_in", "publish",
      "listen_exit", "spawn", "wait", "recv">>

\* Send: the statements of the main goroutine, in program order
SendSteps ==
    <<"args", "listen_out", "listen_err", "listen_in", "listen_exit",
      "spawn", "publish", "wait", "recv">>

StepAfter(p) ==
    LET i == CHOOSE j \in 1..Len(SendSteps) : SendSteps[j] = p
    IN IF i = Len(SendSteps) THEN "returned" ELSE SendSteps[i + 1]

ListenPc == [out |-> "listen_out", err |-> "listen_err",
             in |-> "listen_in", exit |-> "listen_exit"]

\* dialAll: out, in, error, exit
DialOrder == <<"out", "in", "err", "exit">>

\* -------------------------------------------------------------- state
VARIABLES
    hasName,      \* Send: len(os.Args) > 1
    tty,          \* Send: termutil.Isatty(os.Stdin.Fd())
    stdin,        \* bytes still to be read from the Dispatcher's local stdin,
                  \* which then reaches end-of-input
    allowed,      \* CommandConsumer.AllowedName
    consumerQueue,\* the queue the CommandConsumer was added to
    dpc,          \* Send: position of the main goroutine
    lst,          \* per channel: the net.Listener ("none", "open", "closed")
    file,         \* per channel: the rendezvous point exists on the filesystem
    tpc,          \* per channel: position of the relay goroutine
    wg,           \* the sync.WaitGroup counter
    exitCode,     \* exit task: the value it computed
    result,       \* the value Send returned
    dOut, dErr,   \* bytes relayed to the Dispatcher's stdout / stderr
    acceptFailed, \* per channel: Accept returned an error
    cst,          \* per channel: first connection ("none", "backlog", "accepted")
    cbuf,         \* per channel: bytes in flight on the first connection
    ecl, dcl,     \* per channel: Executor / Dispatcher end of it is closed
    environ,      \* Executor: os.Environ()
    cmdpipeEnv,   \* Dispatcher: os.Getenv("CMDPIPE_ENV")
    descEnv,      \* the descriptor's Env
    cmdEnv,       \* Consume: cmd.Env
    published,    \* the descriptor is in the queue
    garbage,      \* an undecodable payload another publisher left in the
                  \* queue: "none", "queued", "dropped"
    deliveries,   \* times the broker has delivered it
    epc,          \* Consume: position of the consumer goroutine
    econn,        \* Consume: outConn, inConn, errConn, exitConn
    eCode,        \* Consume: exitCode
    ppc,          \* the program: "none", "running", "exited"
    copyErr,      \* exec's stdio copying hit a write error
    outcome,      \* how the current run of the program ended
    rejects,      \* per delivery: calls of delivery.Reject
    starts,       \* per delivery: programs started
    writes,       \* per delivery: calls of io.WriteString(exitConn, ...)
    outcome1,     \* how the run of the first delivery ended
    wroteOut, wroteErr  \* bytes the program wrote on the first connections

envVars == <<environ, cmdpipeEnv, descEnv, cmdEnv>>
cfgVars == <<hasName, tty, allowed, consumerQueue, envVars>>
dVars == <<dpc, lst, file, tpc, wg, exitCode, result, dOut, dErr, acceptFailed, stdin>>
cVars == <<cst, cbuf, ecl, dcl>>
bVars == <<published, deliveries, garbage>>
eVars == <<epc, econn, eCode, ppc, outcome, copyErr>>
hVars == <<rejects, starts, writes, outcome1, wroteOut, wroteErr>>
vars == <<cfgVars, dVars, cVars, bVars, eVars, hVars>>

\* Send: commandName := os.Args[1]
commandName == "foo"

Deliv == 1..MaxDeliveries

RECURSIVE InBytes(_)
InBytes(n) == IF n = 0 THEN <<>> ELSE Append(InBytes(n - 1), InByte(n))

\* how the two processes are invoked
InitConfig ==
    /\ hasName \in BOOLEAN
    /\ tty \in BOOLEAN
    /\ stdin \in {InBytes(n) : n \in 0..MaxIn}
    \* what a terminal holds does not matter to Send: one content stands for all
    /\ tty => stdin = InBytes(MaxIn)
    /\ allowed \in Names
    /\ consumerQueue \in {getQueueName(n) : n \in Names}

\* both environments empty, nothing built from them yet
InitNoEnv ==
    /\ environ = <<>>
    /\ cmdpipeEnv = <<>>
    /\ descEnv = None
    /\ cmdEnv = None

\* Send and Consume before their first statement
InitState ==
    /\ dpc = SendSteps[1]
    /\ lst = [ch \in Chan |-> "none"]
    /\ file = [ch \in Chan |-> FALSE]
    /\ tpc = [ch \in Chan |-> "idle"]
    /\ wg = 0
    /\ exitCode = None
    /\ result = None
    /\ dOut = <<>>
    /\ dErr = <<>>
    /\ acceptFailed = [ch \in Chan |-> FALSE]
    /\ cst = [ch \in Chan |-> "none"]
    /\ cbuf = [ch \in Chan |-> <<>>]
    /\ ecl = [ch \in Chan |-> FALSE]
    /\ dcl = [ch \in Chan |-> FALSE]
    /\ published = FALSE
    /\ deliveries = 0
    /\ epc = "idle"
    /\ econn = [ch \in Chan |-> "nil"]
    /\ eCode = None
    /\ ppc = "none"
    /\ copyErr = FALSE
    /\ rejects = [d \in Deliv |-> 0]
    /\ starts = [d \in Deliv |-> 0]
    /\ writes = [d \in Deliv |-> 0]
    /\ outcome = NoOutcome
    /\ outcome1 = NoOutcome
    /\ wroteOut = <<>>
    /\ wroteErr = <<>>

Init ==
    /\ InitConfig
    /\ InitNoEnv
    /\ garbage = "none"
    /\ InitState

\* ------------------------------------------------- Dispatcher: Send (main)
\* the Dispatcher process is still running its goroutines
DRunning == dpc \notin {"crashed", "aborted"}

\* a plausible slip: the argument check is missing
ArgsOkAlways == TRUE

\* Send: len(os.Args) <= 1 is the error case
ArgsOk == hasName

\* Send: if len(os.Args) <= 1 { return 1 }
SendArgs ==
    /\ dpc = "args"
    /\ IF ArgsOk
         THEN dpc' = StepAfter(dpc) /\ UNCHANGED result
         ELSE dpc' = "returned" /\ result' = <<1>>
    /\ UNCHANGED <<cfgVars, lst, file, tpc, wg, exitCode, dOut, dErr, acceptFailed,
                   stdin, cVars, bVars, eVars, hVars>>

\* Send: defer os.Remove(sock); net.Listen("unix", sock) succeeds
Listen(ch) ==
    /\ dpc = ListenPc[ch]
    /\ lst' = [lst EXCEPT ![ch] = "open"]
    /\ file' = [file EXCEPT ![ch] = TRUE]
    /\ dpc' = StepAfter(dpc)
    /\ UNCHANGED <<cfgVars, tpc, wg, exitCode, result, dOut, dErr, acceptFailed,
                   stdin, cVars, bVars, eVars, hVars>>

\* Send: net.Listen fails; panic(err.Error()) in the main goroutine runs the
\* deferred os.Remove calls registered so far and ends the process
ListenFail(ch) ==
    /\ dpc = ListenPc[ch]
    /\ file' = [c \in Chan |-> FALSE]
    /\ lst' = [c \in Chan |-> IF lst[c] = "open" THEN "closed" ELSE lst[c]]
    /\ dcl' = [c \in Chan |-> TRUE]
    /\ dpc' = "aborted"
    /\ UNCHANGED <<cfgVars, tpc, wg, exitCode, result, dOut, dErr, acceptFailed,
                   stdin, cst, cbuf, ecl, bVars, eVars, hVars>>

\* Send: wg.Add(3); the four go statements; exit := make(chan int)
Spawn ==
    /\ dpc = "spawn"
    /\ wg' = WgInitial
    /\ tpc' = [ch \in Chan |-> "accept"]
    /\ dpc' = StepAfter(dpc)
    /\ UNCHANGED <<cfgVars, lst, file, exitCode, result, dOut, dErr, acceptFailed,
                   stdin, cVars, bVars, eVars, hVars>>

\* Send: json.Marshal(Command{...}); queue.PublishBytes(bs)
Publish ==
    /\ dpc = "publish"
    /\ published' = TRUE
    /\ dpc' = StepAfter(dpc)
    /\ UNCHANGED <<cfgVars, lst, file, tpc, wg, exitCode, result, dOut, dErr,
                   acceptFailed, stdin, cVars, deliveries, garbage, eVars, hVars>>

\* Send: wg.Wait()
Wait ==
    /\ dpc = "wait"
    /\ wg = 0
    /\ dpc' = StepAfter(dpc)
    /\ UNCHANGED <<cfgVars, lst, file, tpc, wg, exitCode, result, dOut, dErr,
                   acceptFailed, stdin, cVars, bVars, eVars, hVars>>

\* Send: return <-exit, the unbuffered handoff from the exit task, then the
\* deferred os.Remove of the four rendezvous points
RecvReturn ==
    /\ dpc = "recv"
    /\ tpc["exit"] = "send"
    /\ result' = exitCode
    /\ tpc' = [tpc EXCEPT !["exit"] = "signalled"]
    /\ file' = [c \in Chan |-> FALSE]
    /\ dpc' = StepAfter(dpc)
    /\ UNCHANGED <<cfgVars, lst, wg, exitCode, dOut, dErr, acceptFailed,
                   stdin, cVars, bVars, eVars, hVars>>

\* ------------------------------------------- Dispatcher: relay goroutines
\* fd, err := l.Accept() returns the first dialed connection
AcceptOk(ch) ==
    /\ DRunning
    /\ tpc[ch] = "accept"
    /\ lst[ch] = "open"
    /\ cst[ch] = "backlog"
    /\ cst' = [cst EXCEPT ![ch] = "accepted"]
    /\ tpc' = [tpc EXCEPT ![ch] = IF ch = "exit" THEN "read" ELSE "copy"]
    /\ UNCHANGED <<cfgVars, dpc, lst, file, wg, exitCode, result, dOut, dErr,
                   acceptFailed, stdin, cbuf, ecl, dcl, bVars, eVars, hVars>>

\* Accept returns (nil, err): the error is logged and the goroutine goes on
\* to use the nil fd (io.Copy, fd.Close, ioutil.ReadAll), which panics.  The
\* goroutine's deferred l.Close() runs (closing and unlinking its own socket)
\* and the unrecovered panic ends the process: no deferred call of Send
\* runs, every other descriptor of the process is closed by the system
AcceptFail(ch) ==
    /\ DRunning
    /\ tpc[ch] = "accept"
    /\ lst[ch] = "open"
    /\ acceptFailed' = [acceptFailed EXCEPT ![ch] = TRUE]
    /\ tpc' = [tpc EXCEPT ![ch] = "panicked"]
    /\ file' = [file EXCEPT ![ch] = FALSE]
    /\ lst' = [c \in Chan |-> IF lst[c] = "open" THEN "closed" ELSE lst[c]]
    /\ dcl' = [c \in Chan |-> TRUE]
    /\ dpc' = "crashed"
    /\ UNCHANGED <<cfgVars, wg, exitCode, result, dOut, dErr,
                   stdin, cst, cbuf, ecl, bVars, eVars, hVars>>

\* a plausible slip: the relay stops as soon as no byte is pending
CopyEOFEarly(ch) == cbuf[ch] = <<>>

\* io.Copy sees end-of-stream: every byte read and the peer has closed
CopyEOF(ch) == cbuf[ch] = <<>> /\ ecl[ch]

\* io.Copy(os.Stdout, fd) / io.Copy(os.Stderr, fd): one byte
CopyByte(ch) ==
    /\ DRunning
    /\ ch \in {"out", "err"}
    /\ tpc[ch] = "copy"
    /\ cbuf[ch] # <<>>
    /\ cbuf' = [cbuf EXCEPT ![ch] = Tail(cbuf[ch])]
    /\ IF ch = "out"
         THEN dOut' = Append(dOut, Head(cbuf[ch])) /\ UNCHANGED dErr
         ELSE dErr' = Append(dErr, Head(cbuf[ch])) /\ UNCHANGED dOut
    /\ UNCHANGED <<cfgVars, dpc, lst, file, tpc, wg, exitCode, result,
                   acceptFailed, stdin, cst, ecl, dcl, bVars, eVars, hVars>>

\* io.Copy returns; wg.Done(); the goroutine returns and its deferred
\* l.Close() closes the listener and unlinks the socket file
CopyDone(ch) ==
    /\ DRunning
    /\ ch \in {"out", "err"}
    /\ tpc[ch] = "copy"
    /\ CopyEOF(ch)
    /\ tpc' = [tpc EXCEPT ![ch] = "finished"]
    /\ wg' = wg - 1
    /\ lst' = [lst EXCEPT ![ch] = "closed"]
    /\ file' = [file EXCEPT ![ch] = FALSE]
    /\ UNCHANGED <<cfgVars, dpc, exitCode, result, dOut, dErr,
                   acceptFailed, stdin, cVars, bVars, eVars, hVars>>

\* a plausible slip: the terminal check is missing
SkipCopyNever == FALSE

\* stdin relay: termutil.Isatty(os.Stdin.Fd()) skips the copy
SkipCopy == tty

\* stdin relay: if !Isatty { io.Copy(fd, os.Stdin) }: one byte
InCopyByte ==
    /\ DRunning
    /\ tpc["in"] = "copy"
    /\ ~SkipCopy
    /\ stdin # <<>>
    /\ ~ecl["in"]
    /\ cbuf' = [cbuf EXCEPT !["in"] = Append(cbuf["in"], Head(stdin))]
    /\ stdin' = Tail(stdin)
    /\ UNCHANGED <<cfgVars, dpc, lst, file, tpc, wg, exitCode, result, dOut, dErr,
                   acceptFailed, cst, ecl, dcl, bVars, eVars, hVars>>

\* stdin relay: the copy is skipped (terminal), ends at end-of-input, or
\* fails writing to a connection the peer closed; fd.Close(); wg.Done(); the
\* goroutine returns and its deferred l.Close() runs
InDone ==
    /\ DRunning
    /\ tpc["in"] = "copy"
    /\ \/ SkipCopy
       \/ stdin = <<>>
       \/ stdin # <<>> /\ ecl["in"]
    /\ dcl' = [dcl EXCEPT !["in"] = TRUE]
    /\ tpc' = [tpc EXCEPT !["in"] = "finished"]
    /\ wg' = wg - 1
    /\ lst' = [lst EXCEPT !["in"] = "closed"]
    /\ file' = [file EXCEPT !["in"] = FALSE]
    /\ UNCHANGED <<cfgVars, dpc, exitCode, result, dOut, dErr,
                   acceptFailed, stdin, cst, cbuf, ecl, bVars, eVars, hVars>>

\* exit task: ioutil.ReadAll(fd) until the peer closes; strconv.Atoi
ExitRead ==
    /\ DRunning
    /\ tpc["exit"] = "read"
    /\ ecl["exit"]
    /\ exitCode' = <<ParseExit(cbuf["exit"])>>
    /\ tpc' = [tpc EXCEPT !["exit"] = "send"]
    /\ UNCHANGED <<cfgVars, dpc, lst, file, wg, result, dOut, dErr,
                   acceptFailed, stdin, cVars, bVars, eVars, hVars>>

\* the exit task returns after the handoff: its deferred l.Close() closes the
\* listener and unlinks the socket file
DeferClose(ch) ==
    /\ DRunning
    /\ tpc[ch] = "signalled"
    /\ tpc' = [tpc EXCEPT ![ch] = "finished"]
    /\ lst' = [lst EXCEPT ![ch] = "closed"]
    /\ file' = [file EXCEPT ![ch] = FALSE]
    /\ UNCHANGED <<cfgVars, dpc, wg, exitCode, result, dOut, dErr,
                   acceptFailed, stdin, cVars, bVars, eVars, hVars>>

\* ------------------------------------------------------------ the broker
\* Send: json.Marshal(command), as the tokens of the JSON object
Marshal(name) == <<"{", "Name", name, "}">>

\* a payload that is not a JSON object: a truncated one
Garbage == <<"{", "Name">>

\* a plausible slip: the error of json.Unmarshal is not checked
UnmarshalOkAny(payload) == TRUE

\* Consume: json.Unmarshal([]byte(delivery.Payload()), &command) succeeds
UnmarshalOk(payload) ==
    /\ Len(payload) = 4
    /\ payload[1] = "{"
    /\ payload[2] = "Name"
    /\ payload[4] = "}"

\* a plausible slip: a delivery is handed over while one is being handled
ConsumerFreeAlways == epc # "crashed"

\* Receive: queue.AddConsumer is called once: one consumer goroutine, which
\* calls Consume for one delivery at a time
ConsumerFree == epc = "idle"

\* the broker hands the descriptor to the consumer of its queue; it may do
\* so again (at-least-once delivery)
Deliver ==
    /\ ConsumerFree
    /\ published
    /\ UnmarshalOk(Marshal(commandName))
    /\ consumerQueue = getQueueName(commandName)
    /\ deliveries < MaxDeliveries
    /\ deliveries' = deliveries + 1
    /\ epc' = "dial"
    /\ UNCHANGED <<cfgVars, dVars, cVars, published, garbage, econn, eCode, ppc,
                   outcome, copyErr, hVars>>

\* the broker hands the undecodable payload to Consume: json.Unmarshal
\* fails, Consume logs and returns
DeliverGarbage ==
    /\ ConsumerFree
    /\ garbage = "queued"
    /\ garbage' = "dropped"
    /\ epc' = IF UnmarshalOk(Garbage) THEN "dial" ELSE epc
    /\ UNCHANGED <<cfgVars, dVars, cVars, published, deliveries, econn, eCode,
                   ppc, outcome, copyErr, hVars>>

\* --------------------------------------------- Executor: dialAll, Consume
\* net.Dial("unix", addr) succeeds while the address exists and is listened on
DialOk(ch) == file[ch] /\ lst[ch] = "open"

\* the Dispatcher's end of the connection is gone: closed, or never accepted
\* and its listener closed
PeerGone(ch) ==
    IF econn[ch] = "first"
      THEN dcl[ch] \/ (cst[ch] = "backlog" /\ lst[ch] # "open")
      ELSE lst[ch] # "open"

\* the next address dialAll dials
NextDial == DialOrder[CHOOSE i \in 1..4 :
                /\ econn[DialOrder[i]] = "nil"
                /\ \A j \in 1..(i - 1) : econn[DialOrder[j]] # "nil"]

\* dialAll: one net.Dial; on an error it logs and returns at once, leaving
\* this and the remaining connections nil
Dial ==
    /\ epc = "dial"
    /\ LET ch == NextDial IN
         IF DialOk(ch)
           THEN /\ econn' = [econn EXCEPT ![ch] =
                               IF cst[ch] = "none" THEN "first" ELSE "other"]
                /\ cst' = [cst EXCEPT ![ch] =
                               IF cst[ch] = "none" THEN "backlog" ELSE cst[ch]]
                /\ epc' = IF ch = DialOrder[4] THEN "check" ELSE "dial"
           ELSE /\ epc' = "check"
                /\ UNCHANGED <<econn, cst>>
    /\ UNCHANGED <<cfgVars, dVars, cbuf, ecl, dcl, bVars, eCode, ppc, outcome,
                   copyErr, hVars>>

\* the Executor's end of every connection it holds is closed
CloseAll == [ch \in Chan |-> IF econn[ch] = "first" THEN TRUE ELSE ecl[ch]]

\* Consume: defer outConn.Close() ... defer exitConn.Close().  The method
\* value of a nil net.Conn cannot be taken: the defer statement panics, the
\* consumer goroutine has no recover, the Executor process ends.
\* Otherwise: if command.Name != c.AllowedName { delivery.Reject(); return },
\* the return running the four deferred Close calls
Check ==
    /\ epc = "check"
    /\ IF \E ch \in Chan : econn[ch] = "nil"
         THEN /\ epc' = "crashed"
              /\ ecl' = CloseAll
              /\ econn' = [ch \in Chan |-> "nil"]
              /\ UNCHANGED rejects
         ELSE IF NameAllowed(commandName, allowed)
           THEN /\ epc' = "run"
                /\ UNCHANGED <<ecl, econn, rejects>>
           ELSE /\ rejects' = [rejects EXCEPT ![deliveries] = @ + 1]
                /\ ecl' = CloseAll
                /\ econn' = [ch \in Chan |-> "nil"]
                /\ epc' = "idle"
    /\ UNCHANGED <<cfgVars, dVars, cst, cbuf, dcl, bVars, eCode, ppc, outcome,
                   copyErr, starts, writes, outcome1, wroteOut, wroteErr>>

\* Consume: cmd.Run() starts the program
RunStart ==
    /\ epc = "run"
    /\ epc' = "wait"
    /\ ppc' = "running"
    /\ starts' = [starts EXCEPT ![deliveries] = @ + 1]
    /\ UNCHANGED <<cfgVars, dVars, cVars, bVars, econn, eCode, outcome, copyErr,
                   rejects, writes, outcome1, wroteOut, wroteErr>>

\* Consume: cmd.Run() cannot start the program (a non-ExitError): exitCode
\* stays -1
RunStartFail ==
    /\ epc = "run"
    /\ epc' = "write"
    /\ eCode' = <<ExitCodeOf(FALSE, NoOutcome, FALSE)>>
    /\ UNCHANGED <<cfgVars, dVars, cVars, bVars, econn, ppc, outcome, copyErr, hVars>>

\* the program writes one byte to its standard output (cmd.Stdout = outConn)
\* or standard error (cmd.Stderr = errConn); exec copies it to the
\* connection, which fails once the Dispatcher's end is gone
ProgWrite(ch) ==
    /\ ppc = "running"
    /\ ch \in {"out", "err"}
    /\ IF econn[ch] = "first"
         THEN IF ch = "out"
                THEN /\ Len(wroteOut) < MaxOut
                     /\ wroteOut' = Append(wroteOut, OutByte(Len(wroteOut) + 1))
                     /\ UNCHANGED wroteErr
                ELSE /\ Len(wroteErr) < MaxErr
                     /\ wroteErr' = Append(wroteErr, ErrByte(Len(wroteErr) + 1))
                     /\ UNCHANGED wroteOut
         ELSE UNCHANGED <<wroteOut, wroteErr>>
    /\ IF PeerGone(ch)
         THEN copyErr' = TRUE /\ UNCHANGED cbuf
         ELSE /\ UNCHANGED copyErr
              /\ cbuf' = IF econn[ch] = "first"
                           THEN [cbuf EXCEPT ![ch] = Append(@,
                                   IF ch = "out" THEN OutByte(Len(wroteOut) + 1)
                                   ELSE ErrByte(Len(wroteErr) + 1))]
                           ELSE cbuf
    /\ UNCHANGED <<cfgVars, dVars, cst, ecl, dcl, bVars, epc, econn, eCode, ppc,
                   outcome, rejects, starts, writes, outcome1>>

\* the program reads one byte of its standard input (cmd.Stdin = inConn)
ProgRead ==
    /\ ppc = "running"
    /\ econn["in"] = "first"
    /\ cbuf["in"] # <<>>
    /\ cbuf' = [cbuf EXCEPT !["in"] = Tail(@)]
    /\ UNCHANGED <<cfgVars, dVars, cst, ecl, dcl, bVars, eVars, hVars>>

\* the program terminates
ProgExit(o) ==
    /\ ppc = "running"
    /\ ppc' = "exited"
    /\ outcome' = o
    /\ outcome1' = IF deliveries = 1 THEN o ELSE outcome1
    /\ UNCHANGED <<cfgVars, dVars, cVars, bVars, epc, econn, eCode,
                   copyErr, rejects, starts, writes, wroteOut, wroteErr>>

\* exec's copy from inConn to the program has ended: end-of-stream from the
\* Dispatcher, a connection reset, or a byte arriving for the dead program
InCopierDone == PeerGone("in") \/ (econn["in"] = "first" /\ cbuf["in"] # <<>>)

\* reading inConn failed with a reset (never accepted, listener closed)
InCopierReset == PeerGone("in") /\ ~(econn["in"] = "first" /\ dcl["in"])

\* Consume: cmd.Run() returns once the program and exec's copying are done;
\* exitCode is derived from the error
RunReturn ==
    /\ epc = "wait"
    /\ ppc = "exited"
    /\ InCopierDone
    /\ eCode' = <<ExitCodeOf(TRUE, outcome, copyErr \/ InCopierReset)>>
    /\ ppc' = "none"
    /\ outcome' = NoOutcome
    /\ copyErr' = FALSE
    /\ epc' = "write"
    /\ UNCHANGED <<cfgVars, dVars, cVars, bVars, econn, hVars>>

\* Consume: io.WriteString(exitConn, strconv.Itoa(exitCode))
WriteExit ==
    /\ epc = "write"
    /\ cbuf' = IF econn["exit"] = "first" /\ ~PeerGone("exit")
                 THEN [cbuf EXCEPT !["exit"] = @ \o Itoa(eCode[1])]
                 ELSE cbuf
    /\ writes' = [writes EXCEPT ![deliveries] = @ + 1]
    /\ epc' = "closing"
    /\ UNCHANGED <<cfgVars, dVars, cst, ecl, dcl, bVars, econn, eCode, ppc, outcome,
                   copyErr, rejects, starts, outcome1, wroteOut, wroteErr>>

\* Consume returns: the deferred Close of the four connections
ConsumeReturn ==
    /\ epc = "closing"
    /\ ecl' = CloseAll
    /\ econn' = [ch \in Chan |-> "nil"]
    /\ eCode' = None
    /\ epc' = "idle"
    /\ UNCHANGED <<cfgVars, dVars, cst, cbuf, dcl, bVars, ppc, outcome, copyErr, hVars>>

\* ------------------------------------------------------- specification
Next ==
    \/ SendArgs
    \/ \E ch \in Chan : Listen(ch)
    \/ \E ch \in Chan : ListenFail(ch)
    \/ Spawn
    \/ Publish
    \/ Wait
    \/ RecvReturn
    \/ \E ch \in Chan : AcceptOk(ch)
    \/ \E ch \in Chan : AcceptFail(ch)
    \/ \E ch \in Chan : CopyByte(ch)
    \/ \E ch \in Chan : CopyDone(ch)
    \/ InCopyByte
    \/ InDone
    \/ ExitRead
    \/ \E ch \in Chan : DeferClose(ch)
    \/ Deliver
    \/ Dial
    \/ Check
    \/ RunStart
    \/ RunStartFail
    \/ \E ch \in Chan : ProgWrite(ch)
    \/ ProgRead
    \/ \E o \in Outcomes : ProgExit(o)
    \/ RunReturn
    \/ WriteExit
    \/ ConsumeReturn

Spec == Init /\ [][Next]_vars

\* ------------------------------------------------------------- fairness
\* Send's main goroutine
MainStep ==
    \/ SendArgs
    \/ \E ch \in Chan : Listen(ch) \/ ListenFail(ch)
    \/ Spawn
    \/ Publish
    \/ Wait
    \/ RecvReturn

\* the relay goroutine of one channel
RelayStep(ch) ==
    \/ AcceptOk(ch)
    \/ AcceptFail(ch)
    \/ CopyByte(ch)
    \/ CopyDone(ch)
    \/ ch = "in" /\ (InCopyByte \/ InDone)
    \/ ch = "exit" /\ ExitRead
    \/ DeferClose(ch)

\* the Executor's consumer goroutine, inside Consume
ConsumeStep ==
    \/ Dial
    \/ Check
    \/ RunStart
    \/ RunStartFail
    \/ RunReturn
    \/ WriteExit
    \/ ConsumeReturn

\* the Go scheduler runs every goroutine that can take a step, the broker
\* delivers what is queued to a free consumer, and the program terminates
FairSpec ==
    /\ Spec
    /\ WF_vars(MainStep)
    /\ \A ch \in Chan : WF_vars(RelayStep(ch))
    /\ WF_vars(Deliver)
    /\ WF_vars(ConsumeStep)
    /\ WF_vars(\E o \in Outcomes : ProgExit(o))

\* -------------------------------------------------------- environment
\* the characters of an environment string: two ordinary ones and the
\* separator of CMDPIPE_ENV
EnvChars == {"a", "b", ";"}

\* the strings over S of length at most n
SeqsUpTo(S, n) == UNION {[1..k -> S] : k \in 0..n}

\* strings.Split(s, ";") with cur the field being read and acc the fields
\* already complete
RECURSIVE SplitAcc(_, _, _)
SplitAcc(s, cur, acc) ==
    IF s = <<>> THEN Append(acc, cur)
    ELSE IF Head(s) = ";" THEN SplitAcc(Tail(s), <<>>, Append(acc, cur))
    ELSE SplitAcc(Tail(s), Append(cur, Head(s)), acc)

\* strings.Split(s, ";")
Split(s) == SplitAcc(s, <<>>, <<>>)

\* strings.Join(fields, ";")
RECURSIVE Join(_)
Join(fields) ==
    IF fields = <<>> THEN <<>>
    ELSE IF Len(fields) = 1 THEN fields[1]
    ELSE fields[1] \o <<";">> \o Join(Tail(fields))

\* PropogateEnvironment: no entry for an empty CMDPIPE_ENV, else its fields
PropogateEnvironment(env) == IF env = <<>> THEN <<>> ELSE Split(env)

\* a plausible slip: the descriptor's entries replace the environment
ProgramEnvReplace(inherited, extra) == extra

\* Consume: append(os.Environ(), command.Env...)
ProgramEnv(inherited, extra) == inherited \o extra

\* Send: Env: PropogateEnvironment() in the descriptor it marshals
BuildEnv ==
    /\ descEnv = None
    /\ descEnv' = <<PropogateEnvironment(cmdpipeEnv)>>
    /\ UNCHANGED <<hasName, tty, allowed, consumerQueue, environ, cmdpipeEnv,
                   cmdEnv, dVars, cVars, bVars, eVars, hVars>>

\* Consume: cmd.Env = append(os.Environ(), command.Env...)
SetCmdEnv ==
    /\ descEnv # None
    /\ cmdEnv = None
    /\ cmdEnv' = <<ProgramEnv(environ, descEnv[1])>>
    /\ UNCHANGED <<hasName, tty, allowed, consumerQueue, environ, cmdpipeEnv,
                   descEnv, dVars, cVars, bVars, eVars, hVars>>

\* any CMDPIPE_ENV on the Dispatcher, any environment on the Executor
InitEnv ==
    /\ hasName = TRUE
    /\ tty = TRUE
    /\ stdin = InBytes(MaxIn)
    /\ allowed = commandName
    /\ consumerQueue = getQueueName(commandName)
    /\ environ \in SeqsUpTo({<<"a">>, <<"b">>}, MaxEnviron)
    /\ cmdpipeEnv \in SeqsUpTo(EnvChars, MaxEnvChars)
    /\ descEnv = None
    /\ cmdEnv = None
    /\ garbage = "none"
    /\ InitState

NextEnv == BuildEnv \/ SetCmdEnv

SpecEnv == InitEnv /\ [][NextEnv]_vars

\* one Dispatcher and its Executor with an undecodable payload in the queue
InitDecode ==
    /\ hasName = TRUE
    /\ tty = FALSE
    /\ stdin = InBytes(MaxIn)
    /\ allowed = commandName
    /\ consumerQueue = getQueueName(commandName)
    /\ InitNoEnv
    /\ garbage = "queued"
    /\ InitState

NextDecode == Next \/ DeliverGarbage

SpecDecode == InitDecode /\ [][NextDecode]_vars

\* ---------------------------------------------------------- properties
\* the handling of delivery d has ended (Consume returned or panicked)
Handled(d) == d < deliveries \/ (d = deliveries /\ epc \in {"idle", "crashed"})

\* the exit task has handed its value to Send
HandedOff == tpc["exit"] \in {"signalled", "finished"}

\* C1: when the name is the allowed one and the program run for the
\* Dispatcher's connections exits with status s, Send returns exactly s; the
\* decimal text of every status 0..255 parses back to the same integer.
ExitStatusExact ==
    (dpc = "returned" /\ hasName /\ commandName = allowed
       /\ outcome1.kind = "exit")
    => /\ result = <<outcome1.code>>
       /\ \A s \in 0..255 : AtoiOk(Itoa(s)) /\ ParseExit(Itoa(s)) = s

ExitStatusExactWitness ==
    /\ dpc = "returned"
    /\ commandName = allowed
    /\ outcome1 = Exited(255)
    /\ result = <<255>>
    /\ \A ch \in Chan : cst[ch] = "accepted"

\* C2: while the descriptor is visible in the queue (or being handled), each
\* of the four rendezvous points has already been listened on.
ListenBeforePublish ==
    published => \A ch \in Chan : lst[ch] # "none"

ListenBeforePublishWitness ==
    /\ published
    /\ deliveries = 0
    /\ \A ch \in Chan : lst[ch] = "open" /\ file[ch]

\* C3: when Send returns a status, the bytes relayed to the Dispatcher's
\* standard output and standard error are exactly, and in order, the bytes
\* the program wrote to its standard output and standard error.
StreamFidelity ==
    (dpc = "returned" /\ hasName) => (dOut = wroteOut /\ dErr = wroteErr)

StreamFidelityWitness ==
    /\ dpc = "returned"
    /\ Len(wroteOut) >= 2
    /\ Len(wroteErr) >= 1
    /\ dOut = wroteOut
    /\ dErr = wroteErr

\* C4: every delivery whose name differs from the allowed name has, once its
\* handling ended, started no program and been rejected exactly once.
RejectExactlyOnce ==
    \A d \in Deliv :
        (Handled(d) /\ commandName # allowed)
        => (rejects[d] = 1 /\ starts[d] = 0)

\* C5: Send returns only after the three stdio relays have finished and the
\* exit task has handed over its value, which is the value returned; the
\* handoff never completes while a stdio relay is still running.
BarrierThenExit ==
    /\ (dpc = "returned" /\ hasName)
         => /\ \A ch \in Stdio : tpc[ch] = "finished"
            /\ HandedOff
            /\ exitCode # None
            /\ result = exitCode
    /\ HandedOff => \A ch \in Stdio : tpc[ch] = "finished"

BarrierThenExitWitness ==
    /\ dpc = "returned"
    /\ hasName
    /\ wg = 0
    /\ tpc["exit"] = "signalled"
    /\ \A ch \in Stdio : tpc[ch] = "finished"

\* C6: whenever a Send invocation has ended (returned, aborted or crashed),
\* none of its four rendezvous points exists on the filesystem.
CleanupAlways ==
    dpc \in {"returned", "aborted", "crashed"} => \A ch \in Chan : ~file[ch]

\* C7: when Accept fails on a stdio channel, that relay ends having signalled
\* the barrier and the Dispatcher process does not crash.
AcceptFailureContained ==
    \A ch \in Stdio :
        acceptFailed[ch] => (tpc[ch] = "finished" /\ dpc # "crashed")

\* C8: the exit task delivers -1 when Accept on the exit rendezvous point
\* fails or the payload does not parse, and the parsed integer otherwise.
ExitTaskDelivers ==
    /\ acceptFailed["exit"] => (tpc["exit"] # "panicked" /\ exitCode = <<-1>>)
    /\ (tpc["exit"] \in {"send", "signalled", "finished"} /\ ~acceptFailed["exit"])
         => exitCode = (IF AtoiOk(cbuf["exit"]) THEN <<AtoiVal(cbuf["exit"])>>
                        ELSE <<-1>>)

\* C9 (as stated): once the foo descriptor has been handled (its four dials
\* having succeeded) by an Executor that allows only bar, the delivery was
\* rejected, no program was started, and the exit task never delivers a
\* value, so Send never returns.
MismatchNeverReturns ==
    (commandName # allowed /\ Handled(1) /\ epc # "crashed")
    => /\ rejects[1] = 1
       /\ starts[1] = 0
       /\ ~HandedOff
       /\ dpc # "returned"

\* C9 (amended): an Executor that allows only bar starts no program for the
\* foo descriptor; any value the exit task computes is -1 (the exit
\* connection is closed unused, its empty payload does not parse), and when
\* Send returns it returns -1 and the first delivery was rejected once.
MismatchReturnsMinusOne ==
    (hasName /\ commandName # allowed)
    => /\ \A d \in Deliv : starts[d] = 0
       /\ exitCode # None => exitCode = <<-1>>
       /\ dpc = "returned" => (result = <<-1>> /\ rejects[1] = 1)

MismatchReturnsMinusOneWitness ==
    /\ commandName # allowed
    /\ dpc = "returned"
    /\ result = <<-1>>
    /\ rejects[1] = 1
    /\ cbuf["exit"] = <<>>

\* C10: a second delivery of the descriptor is handled without crashing the
\* Executor.
RedeliveryTolerated ==
    deliveries >= 2 => epc # "crashed"

\* C11: on one Executor at most one program runs at a time, and only while
\* Consume waits in cmd.Run for the delivery being handled; a delivery is
\* handed to Consume only when the handling of the previous one has
\* finished: no program running, no connection held, no status pending.
OneProgramAtATime ==
    /\ [](ppc # "none" => (epc = "wait" /\ starts[deliveries] = 1))
    /\ [][deliveries' # deliveries
            => /\ epc = "idle"
               /\ ppc = "none"
               /\ eCode = None
               /\ \A ch \in Chan : econn[ch] = "nil"
               /\ \A d \in 1..deliveries : Handled(d)]_vars

OneProgramAtATimeWitness ==
    /\ deliveries = 2
    /\ ppc = "running"
    /\ starts[1] = 1
    /\ starts[2] = 1

\* C13: when local standard input is a terminal, the stdin relay never reads
\* it and never sends a byte on the in connection; once it has accepted it
\* can always finish, and when it has finished the connection is closed with
\* nothing in flight, which the program's side reads as end-of-stream.
TtySendsNothing ==
    (tty /\ hasName)
    => /\ stdin = InBytes(MaxIn)
       /\ cbuf["in"] = <<>>
       /\ (tpc["in"] = "copy" /\ DRunning) => ENABLED InDone
       /\ tpc["in"] = "finished" => dcl["in"]

TtySendsNothingWitness ==
    /\ tty
    /\ stdin # <<>>
    /\ cst["in"] = "accepted"
    /\ tpc["in"] = "finished"
    /\ dcl["in"]
    /\ ppc = "running"

\* C20: a Send invoked without a command name returns 1 and does nothing
\* else: no rendezvous point is listened on or exists, no task is started,
\* nothing is published or delivered.
NoNameReturnsOne ==
    ~hasName
    => /\ dpc \in {"args", "returned"}
       /\ dpc = "returned" => result = <<1>>
       /\ \A ch \in Chan : /\ lst[ch] = "none"
                           /\ ~file[ch]
                           /\ tpc[ch] = "idle"
                           /\ cst[ch] = "none"
       /\ wg = 0
       /\ ~published
       /\ deliveries = 0

NoNameReturnsOneWitness ==
    /\ ~hasName
    /\ dpc = "returned"
    /\ result = <<1>>

\* C12: when the broker hands Consume a payload that does not decode, that
\* call of Consume changes nothing: no connection is dialed, no program is
\* started, no status is written, the delivery is not rejected (and nothing
\* in the Executor ever acknowledges), and the consumer is free again.
UndecodableIgnored ==
    [][garbage' # garbage
         => /\ UNCHANGED <<cVars, eVars, hVars, dVars, published, deliveries>>
            /\ epc' = "idle"]_vars

UndecodableIgnoredWitness ==
    /\ garbage = "dropped"
    /\ published
    /\ deliveries = 0
    /\ epc = "idle"
    /\ \A ch \in Chan : econn[ch] = "nil" /\ cst[ch] = "none"

\* C14: a failed dial does not end the Executor: Consume goes on to the name
\* comparison with the connections it has, so the Executor never crashes.
DialFailureContinues ==
    \A ch \in Chan : (epc \in {"check", "crashed"} /\ econn[ch] = "nil")
                     => epc = "check"

\* C15: every delivery whose name matches has, once its handling ended, had
\* the exit status written exactly once.
ExitStatusWrittenOnce ==
    \A d \in Deliv :
        (Handled(d) /\ commandName = allowed) => writes[d] = 1

\* C16: on a name mismatch the Executor starts nothing, writes no byte on
\* any connection (no output, no exit status), takes no byte from the in
\* connection, and once the handling of a delivery has ended every
\* connection it dialed is closed.
MismatchTouchesNothing ==
    /\ [](commandName # allowed
            => /\ ppc = "none"
               /\ wroteOut = <<>> /\ wroteErr = <<>>
               /\ cbuf["out"] = <<>> /\ cbuf["err"] = <<>> /\ cbuf["exit"] = <<>>
               /\ \A d \in Deliv : writes[d] = 0
               /\ Handled(deliveries)
                    => \A ch \in Chan : /\ econn[ch] = "nil"
                                        /\ cst[ch] # "none" => ecl[ch])
    /\ [][commandName # allowed
            => Len(cbuf'["in"]) >= Len(cbuf["in"])]_vars

MismatchTouchesNothingWitness ==
    /\ commandName # allowed
    /\ rejects[1] = 1
    /\ epc = "idle"
    /\ \A ch \in Chan : cst[ch] # "none" /\ ecl[ch]
    /\ cbuf["in"] # <<>>

\* C17 (as stated): the status Consume derives from cmd.Run is the program's
\* exit code when it exited (0 included) and -1 when it was not started or
\* ended without an exit code.
StatusIsExitCode ==
    [][(dpc # "crashed" /\ epc \in {"run", "wait"} /\ epc' = "write")
         => eCode' = <<IF epc = "wait" /\ outcome.kind = "exit"
                         THEN outcome.code ELSE -1>>]_vars

\* C17 (amended): the status is the program's exit code when that is not
\* zero; 0 when the program exited with zero and exec's copying of its
\* standard streams did not fail; -1 when the program was not started, ended
\* without an exit code, or exited with zero after a copy failure.  No other
\* value is derived, and what is written on the exit connection is the
\* decimal text of that value.
StatusReported ==
    /\ [][(epc = "run" /\ epc' = "write") => eCode' = <<-1>>]_vars
    /\ [][(epc = "wait" /\ epc' = "write")
            => eCode' = <<IF outcome.kind = "exit" /\ outcome.code # 0
                            THEN outcome.code
                          ELSE IF /\ outcome.kind = "exit"
                                  /\ ~(copyErr \/ InCopierReset)
                            THEN 0
                          ELSE -1>>]_vars
    /\ [](eCode # None => eCode[1] \in ExitCodes \cup {-1})
    /\ [][writes' # writes
            => cbuf'["exit"] \in {cbuf["exit"], cbuf["exit"] \o Itoa(eCode[1])}]_vars

StatusReportedWitness ==
    /\ deliveries = 1
    /\ outcome1 = Exited(0)
    /\ epc = "write"
    /\ eCode = <<-1>>

\* C18: cmd.Env is the Executor's own environment, every entry unchanged
\* and in its place, followed by the descriptor's entries in descriptor
\* order (the fields of CMDPIPE_ENV, none for an empty one): nothing
\* inherited is removed or replaced, whatever the descriptor carries.
EnvAppended ==
    cmdEnv # None
    => LET e == cmdEnv[1]
           d == descEnv[1]
       IN  /\ Len(e) = Len(environ) + Len(d)
           /\ \A i \in 1..Len(environ) : e[i] = environ[i]
           /\ \A j \in 1..Len(d) : e[Len(environ) + j] = d[j]
           /\ cmdpipeEnv = <<>> => d = <<>>
           /\ cmdpipeEnv # <<>> => Join(d) = cmdpipeEnv
           /\ \A j \in 1..Len(d) : \A k \in 1..Len(d[j]) : d[j][k] # ";"

EnvAppendedWitness ==
    /\ cmdEnv # None
    /\ Len(environ) = 2
    /\ Len(descEnv[1]) = 2
    /\ environ[1] = descEnv[1][2]
    /\ Len(cmdEnv[1]) = 4

\* C19: once a matching Executor holds the four connections of the first
\* delivery (all four dials succeeded), Send eventually returns.
SendEventuallyReturns ==
    (/\ commandName = allowed
     /\ deliveries = 1
     /\ epc = "check"
     /\ \A ch \in Chan : econn[ch] = "first")
    ~> (dpc = "returned")

====
